---- MODULE Spec2Model ----
(***************************************************************************)
(* Model of src/src/chatbot/chatbot.py: the line-oriented chat responder.  *)
(* Lines 1-14 of the file are a Java-style header (package, imports, a     *)
(* block comment); the Python program is lines 17-97 and is what is        *)
(* modelled here: the optional model load at startup, generate_response,   *)
(* and the read-generate-print loop with its two exception handlers.       *)
(***************************************************************************)
EXTENDS Naturals, Sequences, FiniteSets, TLC

\* ------------------------------------------------------------------ bounds

\* Longest standard input (in lines) the model explores.
MaxLines == 3

\* Input lines the peer may send; input() strips the newline, so the empty
\* line arrives as the empty string.
Texts == {"", "hello"}

\* What tokenizer.decode may return when generation succeeds (the model is an
\* external artifact): the empty string or some text.
Decoded == {"", "Hi! How are you?"}

\* Messages of the exceptions encode/generate/decode may raise.
GenErrors == {"index out of range in self"}

\* ------------------------------------------------------------------ state

VARIABLES
    pc,            \* position in the script: start, read, generate, print,
                   \* flush, handler, done, crashed
    bound,         \* names bound in the module namespace
    has_dialogpt,  \* the flag set at startup (meaningful once bound)
    responses,     \* the canned reply list (line 32), <<>> until assigned
    stdin,         \* every line the peer will send before closing the pipe
    nread,         \* number of lines input() has returned so far
    input_text,    \* the loop's input_text
    response,      \* the loop's response
    exc,           \* message of the exception travelling to the loop's handler
    outbuf,        \* lines printed but not yet flushed
    stdout,        \* lines flushed to the peer
    gen,           \* what the model did in the last generate_response call
    loadAttempts,  \* how often the load block (lines 17-29) has run
    assigns,       \* how often has_dialogpt has been assigned
    modelCalls     \* how often tokenizer/model have been invoked

vars == <<pc, bound, has_dialogpt, responses, stdin, nread, input_text,
          response, exc, outbuf, stdout, gen, loadAttempts, assigns,
          modelCalls>>

\* The list literal of lines 32-53.
CannedResponses ==
    << "Hello there!",
       "How can I help you today?",
       "That's interesting!",
       "Tell me more about that.",
       "I understand.",
       "That's a good point.",
       "I'm not sure I follow.",
       "Could you explain that differently?",
       "Let me think about that.",
       "I appreciate your perspective.",
       "What else would you like to talk about?",
       "I'm here to chat whenever you need.",
       "That sounds challenging.",
       "I'm glad to hear that!",
       "I'm sorry to hear that.",
       "That must be difficult.",
       "Congratulations!",
       "That's wonderful news!",
       "I'm learning new things every day.",
       "Thanks for sharing that with me." >>

Range(s) == {s[i] : i \in DOMAIN s}

\* Sequences over S of length at most n.
SeqUpTo(S, n) == UNION {[1..k -> S] : k \in 0..n}

\* One line on standard output: its text, who printed it, and the number of
\* input lines read when it was printed.
Line(k, t, n) == [kind |-> k, text |-> t, n |-> n]

\* What the external model does in one call: decode returns text, or one of
\* encode/generate/decode raises.
ModelOutcomes ==
    {[kind |-> "decoded", text |-> d] : d \in Decoded}
        \cup {[kind |-> "raised", text |-> m] : m \in GenErrors}

NoGen == [kind |-> "none", text |-> ""]

\* Python's message for a reference to a name that is not bound.
NameError(name) == "name '" \o name \o "' is not defined"

\* random.choice(responses), lines 73, 76, 78: the name random is looked up in
\* the module namespace first; only if it is bound is an element picked.
RandomChoice ==
    IF "random" \in bound
    THEN {[kind |-> "return", value |-> responses[i]] : i \in DOMAIN responses}
    ELSE {[kind |-> "raise", value |-> NameError("random")]}

\* generate_response(input_text), lines 55-78, given what the model does (oc):
\* the set of possible results, each a return value or a propagating
\* exception, together with the lines the function itself printed.
generate_response(text, oc) ==
    IF has_dialogpt
    THEN LET tryBlock ==          \* lines 58-73
                 IF oc.kind = "raised"
                 THEN {[kind |-> "raise", value |-> oc.text]}
                 ELSE IF oc.text # ""
                      THEN {[kind |-> "return", value |-> oc.text]}
                      ELSE RandomChoice
         IN  UNION { IF r.kind = "return"
                     THEN {[kind |-> "return", value |-> r.value,
                            printed |-> << >>]}
                     ELSE \* except Exception as e, lines 74-76
                          {[kind |-> c.kind, value |-> c.value,
                            printed |->
                              <<"Error generating DialoGPT response: "
                                    \o r.value>>] : c \in RandomChoice}
                   : r \in tryBlock }
    ELSE {[kind |-> c.kind, value |-> c.value, printed |-> << >>]
             : c \in RandomChoice}

\* ------------------------------------------------------------------ startup

Init ==
    /\ pc = "start"
    /\ bound = {}
    /\ has_dialogpt = FALSE
    /\ responses = << >>
    /\ stdin \in SeqUpTo(Texts, MaxLines)
    /\ nread = 0
    /\ input_text = ""
    /\ response = ""
    /\ exc = ""
    /\ outbuf = << >>
    /\ stdout = << >>
    /\ gen = NoGen
    /\ loadAttempts = 0
    /\ assigns = 0
    /\ modelCalls = 0

\* Lines 17-26 and 32-78: transformers and torch import, both from_pretrained
\* calls succeed, the flag is set, the banner is printed, the list and the
\* function are defined.
StartupDialoGPT ==
    /\ pc = "start"
    /\ bound' = {"AutoModelForCausalLM", "AutoTokenizer", "torch", "tokenizer",
                 "model", "has_dialogpt", "responses", "generate_response"}
    /\ has_dialogpt' = TRUE
    /\ responses' = CannedResponses
    /\ outbuf' = Append(outbuf, Line("banner", "ChatBot initialized with DialoGPT", 0))
    /\ loadAttempts' = loadAttempts + 1
    /\ assigns' = assigns + 1
    /\ pc' = "read"
    /\ UNCHANGED <<stdin, nread, input_text, response, exc, stdout, gen, modelCalls>>

\* Lines 17-19 raise ImportError; lines 27-29 and 32-78.
StartupBasic ==
    /\ pc = "start"
    /\ bound' = {"has_dialogpt", "responses", "generate_response"}
    /\ has_dialogpt' = FALSE
    /\ responses' = CannedResponses
    /\ outbuf' = Append(outbuf, Line("banner", "ChatBot initialized with basic response system", 0))
    /\ loadAttempts' = loadAttempts + 1
    /\ assigns' = assigns + 1
    /\ pc' = "read"
    /\ UNCHANGED <<stdin, nread, input_text, response, exc, stdout, gen, modelCalls>>

\* Lines 22-23 raise something that is not an ImportError (the weights cannot
\* be fetched or read): only ImportError is caught, so the script ends with a
\* traceback before the flag is set and before the loop.
StartupCrash ==
    /\ pc = "start"
    /\ \E names \in {{"AutoModelForCausalLM", "AutoTokenizer", "torch"},
                     {"AutoModelForCausalLM", "AutoTokenizer", "torch", "tokenizer"}} :
           bound' = names
    /\ loadAttempts' = loadAttempts + 1
    /\ pc' = "crashed"
    /\ UNCHANGED <<has_dialogpt, responses, stdin, nread, input_text, response,
                   exc, outbuf, stdout, gen, assigns, modelCalls>>

\* ------------------------------------------------------------------ main loop

\* Line 84, input() returns the next line.
ReadLine ==
    /\ pc = "read"
    /\ nread < Len(stdin)
    /\ input_text' = stdin[nread + 1]
    /\ nread' = nread + 1
    /\ bound' = bound \cup {"input_text"}
    /\ pc' = "generate"
    /\ UNCHANGED <<has_dialogpt, responses, stdin, response, exc, outbuf, stdout,
                   gen, loadAttempts, assigns, modelCalls>>

\* Line 84 raises EOFError, lines 91-93 break; the script ends and the
\* interpreter flushes what is still buffered.
ReadEOF ==
    /\ pc = "read"
    /\ nread = Len(stdin)
    /\ stdout' = stdout \o outbuf
    /\ outbuf' = << >>
    /\ pc' = "done"
    /\ UNCHANGED <<bound, has_dialogpt, responses, stdin, nread, input_text,
                   response, exc, gen, loadAttempts, assigns, modelCalls>>

\* Generate as it would be if the weights were loaded inside the call instead
\* of once at startup.
GenerateReloading ==
    /\ pc = "generate"
    /\ \E oc \in (IF has_dialogpt THEN ModelOutcomes ELSE {NoGen}) :
         /\ gen' = oc
         /\ \E r \in generate_response(input_text, oc) :
              /\ outbuf' = outbuf \o [i \in DOMAIN r.printed |->
                                         Line("diag", r.printed[i], nread)]
              /\ IF r.kind = "return"
                 THEN /\ response' = r.value
                      /\ bound' = bound \cup {"response"}
                      /\ exc' = ""
                      /\ pc' = "print"
                 ELSE /\ exc' = r.value
                      /\ pc' = "handler"
                      /\ UNCHANGED <<response, bound>>
    /\ modelCalls' = IF has_dialogpt THEN modelCalls + 1 ELSE modelCalls
    /\ loadAttempts' = IF has_dialogpt THEN loadAttempts + 1 ELSE loadAttempts
    /\ UNCHANGED <<has_dialogpt, responses, stdin, nread, input_text, stdout,
                   assigns>>

\* Line 87, the call of generate_response: either response is assigned or the
\* exception travels to the handler of line 94.
Generate ==
    /\ pc = "generate"
    /\ \E oc \in (IF has_dialogpt THEN ModelOutcomes ELSE {NoGen}) :
         /\ gen' = oc
         /\ \E r \in generate_response(input_text, oc) :
              /\ outbuf' = outbuf \o [i \in DOMAIN r.printed |->
                                         Line("diag", r.printed[i], nread)]
              /\ IF r.kind = "return"
                 THEN /\ response' = r.value
                      /\ bound' = bound \cup {"response"}
                      /\ exc' = ""
                      /\ pc' = "print"
                 ELSE /\ exc' = r.value
                      /\ pc' = "handler"
                      /\ UNCHANGED <<response, bound>>
    /\ modelCalls' = IF has_dialogpt THEN modelCalls + 1 ELSE modelCalls
    /\ UNCHANGED <<has_dialogpt, responses, stdin, nread, input_text, stdout,
                   loadAttempts, assigns>>

\* PrintReply as it would be if every reply were also remembered in the list
\* later replies are picked from.
PrintReplyRemembering ==
    /\ pc = "print"
    /\ outbuf' = Append(outbuf, Line("reply", response, nread))
    /\ responses' = Append(responses, response)
    /\ pc' = "flush"
    /\ UNCHANGED <<bound, has_dialogpt, stdin, nread, input_text,
                   response, exc, stdout, gen, loadAttempts, assigns, modelCalls>>

\* Line 88, print(response).
PrintReply ==
    /\ pc = "print"
    /\ outbuf' = Append(outbuf, Line("reply", response, nread))
    /\ pc' = "flush"
    /\ UNCHANGED <<bound, has_dialogpt, responses, stdin, nread, input_text,
                   response, exc, stdout, gen, loadAttempts, assigns, modelCalls>>

\* Lines 89-90, import sys and sys.stdout.flush(); then back to line 81.
FlushReply ==
    /\ pc = "flush"
    /\ bound' = bound \cup {"sys"}
    /\ stdout' = stdout \o outbuf
    /\ outbuf' = << >>
    /\ pc' = "read"
    /\ UNCHANGED <<has_dialogpt, responses, stdin, nread, input_text, response,
                   exc, gen, loadAttempts, assigns, modelCalls>>

\* HandleException as it would be if the handler of line 94 ended the loop
\* after reporting the error.
HandleExceptionBreaking ==
    /\ pc = "handler"
    /\ bound' = bound \cup {"sys"}
    /\ stdout' = (stdout \o outbuf) \o <<Line("error", "Error: " \o exc, nread)>>
    /\ outbuf' = << >>
    /\ exc' = ""
    /\ pc' = "done"
    /\ UNCHANGED <<has_dialogpt, responses, stdin, nread, input_text, response,
                   gen, loadAttempts, assigns, modelCalls>>

\* Lines 94-97, except Exception as e: print the error line, import sys,
\* flush; e is unbound again when the handler ends; then back to line 81.
HandleException ==
    /\ pc = "handler"
    /\ bound' = bound \cup {"sys"}
    /\ stdout' = (stdout \o outbuf) \o <<Line("error", "Error: " \o exc, nread)>>
    /\ outbuf' = << >>
    /\ exc' = ""
    /\ pc' = "read"
    /\ UNCHANGED <<has_dialogpt, responses, stdin, nread, input_text, response,
                   gen, loadAttempts, assigns, modelCalls>>

Next ==
    \/ StartupDialoGPT
    \/ StartupBasic
    \/ StartupCrash
    \/ ReadLine
    \/ ReadEOF
    \/ Generate
    \/ PrintReply
    \/ FlushReply
    \/ HandleException

Spec == Init /\ [][Next]_vars

TypeOK ==
    /\ pc \in {"start", "read", "generate", "print", "flush", "handler",
               "done", "crashed"}
    /\ has_dialogpt \in BOOLEAN
    /\ nread \in 0..Len(stdin)
    /\ loadAttempts \in 0..1

\* ------------------------------------------------------------------ properties

\* Positions inside the while loop of lines 81-97.
LoopPcs == {"read", "generate", "print", "flush", "handler"}

\* How many reply lines for input line k a sequence of output lines holds.
RepliesTo(out, k) ==
    Cardinality({i \in DOMAIN out : out[i].kind = "reply" /\ out[i].n = k})

IsReply(l) == l.kind = "reply"

\* The output lines printed while input line k was being handled.
LinesFor(out, k) == SelectSeq(out, LAMBDA l : l.n = k)

\* C1: once an iteration has ended, every line read so far has received a
\* reply line on standard output whose text is a non-empty string.
C1_NonEmptyReplyAlways ==
    pc \in {"read", "done"} =>
        \A k \in 1..nread :
            \E i \in DOMAIN stdout :
                /\ stdout[i].kind = "reply"
                /\ stdout[i].n = k
                /\ stdout[i].text # ""

\* C2: read and reply alternate strictly: whenever the loop reads (a line or
\* end of input) every earlier line has exactly one reply, already flushed;
\* and a reply is only ever written for a line that has been read.
C2_ReadThenReply ==
    [][ /\ (pc = "read" /\ pc' # "read") =>
              /\ outbuf = SelectSeq(outbuf, LAMBDA l : l.kind = "banner")
              /\ \A k \in 1..nread : RepliesTo(stdout, k) = 1
        /\ \A i \in DOMAIN outbuf' :
              IsReply(outbuf'[i]) => outbuf'[i].n = nread' /\ nread' >= 1 ]_vars

\* C3: the loop is left exactly when input() meets end of input: at end of
\* input the next step ends the program and adds no reply; no other step
\* ends the program once the loop has been entered; nothing runs afterwards.
C3_ExitOnlyOnEOF ==
    [][ /\ (pc = "read" /\ nread = Len(stdin)) =>
              /\ pc' = "done"
              /\ SelectSeq(stdout', IsReply) = SelectSeq(stdout, IsReply)
        /\ (pc \in LoopPcs /\ pc' \notin LoopPcs) =>
              /\ pc = "read"
              /\ nread = Len(stdin)
              /\ pc' = "done"
        /\ pc # "done" ]_vars

\* An exception reached the loop's handler, the loop went on, and the program
\* later ended at end of input.
C3_Witness ==
    /\ pc = "done"
    /\ nread >= 2
    /\ \E i \in DOMAIN stdout : stdout[i].kind = "error" /\ stdout[i].n = 1

\* C4: without the model, every call of generate_response returns an element
\* of the canned list and neither tokenizer nor model is invoked.
C4_BasicModeReturnsCanned ==
    [][ (pc = "generate" /\ ~has_dialogpt) =>
            /\ pc' = "print"
            /\ response' \in Range(responses)
            /\ modelCalls' = modelCalls ]_vars

\* C5: with the model, when encode/generate/decode raises, generate_response
\* returns an element of the canned list and no exception leaves it.
C5_FailureFallsBackToCanned ==
    [][ (pc = "generate" /\ has_dialogpt /\ gen'.kind = "raised") =>
            /\ pc' = "print"
            /\ exc' = ""
            /\ response' \in Range(responses) ]_vars

\* Once startup is over, a step neither runs the load block, nor assigns the
\* flag, nor rebinds tokenizer or model.
LoadStateKept ==
    pc # "start" =>
        /\ has_dialogpt' = has_dialogpt
        /\ loadAttempts' = loadAttempts
        /\ assigns' = assigns
        /\ bound' \cap {"tokenizer", "model"} = bound \cap {"tokenizer", "model"}

\* The load block has run exactly once as soon as startup is over, and the
\* flag has been assigned exactly once wherever the loop is or was running.
LoadedOnce ==
    /\ (pc = "start") = (loadAttempts = 0)
    /\ loadAttempts <= 1
    /\ (pc \in LoopPcs \/ pc = "done") => (assigns = 1 /\ "has_dialogpt" \in bound)
    /\ nread > 0 => (loadAttempts = 1 /\ assigns = 1)

PossibleResults ==
    {[kind |-> r.kind, value |-> r.value] :
        r \in UNION {generate_response(input_text, oc) :
                        oc \in (IF has_dialogpt THEN ModelOutcomes ELSE {NoGen})}}

\* A step of the loop leaves the canned list, the flag and the model and
\* tokenizer bindings as they are.
ProgramStateKept ==
    pc \in LoopPcs =>
        /\ responses' = responses
        /\ has_dialogpt' = has_dialogpt
        /\ bound' \cap {"tokenizer", "model"} = bound \cap {"tokenizer", "model"}

\* What a call of generate_response can end in is fixed by the mode.
ResultsFixedByMode ==
    pc = "generate" =>
        PossibleResults =
            IF has_dialogpt
            THEN {[kind |-> "return", value |-> d] : d \in Decoded \ {""}}
                   \cup {[kind |-> "raise", value |-> NameError("random")]}
            ELSE {[kind |-> "raise", value |-> NameError("random")]}

\* C7: no step of the loop changes the canned list, the flag, or the model
\* and tokenizer bindings; and what a call of generate_response can end in
\* is fixed by the mode, whatever was read or replied before.
C7_NoHistory == [][ProgramStateKept]_vars /\ []ResultsFixedByMode

\* A second line is about to be answered after the first got a model reply.
C7_Witness ==
    /\ pc = "generate"
    /\ nread = 2
    /\ has_dialogpt
    /\ \E i \in DOMAIN stdout : stdout[i].kind = "reply" /\ stdout[i].n = 1

\* C8: with the model and a successful generation, generate_response returns
\* the decoded text when it is non-empty and an element of the canned list
\* exactly when it is empty.
C8_DecodedOrCanned ==
    [][ (pc = "generate" /\ has_dialogpt /\ gen'.kind = "decoded") =>
            /\ pc' = "print"
            /\ gen'.text # "" => response' = gen'.text
            /\ (response' \in Range(responses)) <=> (gen'.text = "") ]_vars

\* C9: the handler of line 94 keeps the loop going, and the output for the
\* line whose iteration raised is the single, flushed line 'Error: <message>'.
C9_ErrorLineOnly ==
    [][ pc = "handler" =>
            /\ pc' = "read"
            /\ outbuf' = << >>
            /\ LinesFor(stdout', nread) = <<Line("error", "Error: " \o exc, nread)>> ]_vars

\* C10: between iterations, the output holds the banner and exactly one line
\* per input line consumed.
C10_OneLinePerInput ==
    pc \in {"read", "done"} =>
        /\ Len(stdout) + Len(outbuf) = 1 + nread
        /\ \A k \in 1..nread : Len(LinesFor(stdout, k)) = 1
====
